---- MODULE Spec2Model ----
(***************************************************************************)
(* Model of the bearer-token verifier of pidgr-mcp (package auth,          *)
(* OIDCVerifier): the JWKS cache guarded by a sync.RWMutex, the lazy       *)
(* fetch, the forced refresh after a failed parse, the claim checks and    *)
(* the sanitised error returned to the caller.                             *)
(*                                                                         *)
(* Time is counted in hours.                                               *)
(***************************************************************************)
EXTENDS Integers, Sequences, FiniteSets, TLC

\* ---------------------------------------------------------------- bounds
NumProcs == 2          \* request handlers, each calling Verify once
MaxTime  == 1          \* last clock tick

\* ------------------------------------------------------ program constants
jwksCacheTTL == 1      \* time.Hour
ExpFallback  == 1      \* time.Now().Add(time.Hour)

Procs == 1..NumProcs
None  == 0

\* ------------------------------------------------------------ the tokens
Kids == {"K1", "K2"}
NoSet == {"nil"}                     \* a nil jwk.Set
FirstServed == {"K1"}                \* key set the key source publishes first
Rotations == {<<{"K1"}, {"K2"}>>}    \* key rotations of the key source

testIssuer == "https://auth.example.com/test-pool"
EvilIssuer == "https://evil.com"
TestClientID == "my-client-id"
ClientIDs == {"", TestClientID}

NoTime == 0 - 1                      \* the zero time.Time (claim absent)
Far == MaxTime + jwksCacheTTL + 1    \* an expiry no behaviour reaches

\* What a token string decodes to.  wf: it is a compact JWS with a JSON
\* payload; kid: key identifier in its header; sig: the signature verifies
\* under the key of that identifier.
Tok(wf, kid, sig, exp, nbf, iss, aud, sub, org) ==
  [wf |-> wf, kid |-> kid, sig |-> sig, exp |-> exp, nbf |-> nbf,
   iss |-> iss, aud |-> aud, sub |-> sub, org |-> org]

TokenStrings ==
  {"tok-valid", "tok-k2", "bad-token", "tok-badsig", "tok-exp1",
   "tok-evil", "tok-otheraud"}

\* Handler 1 presents any token; the other handlers are concurrent load
\* presenting well-formed tokens signed with either key.
LoadTokens == {"tok-valid", "tok-k2"}
TokensOf(p) == IF p = 1 THEN TokenStrings ELSE LoadTokens

Decode(s) ==
  CASE s = "tok-valid"    -> Tok(TRUE, "K1", TRUE, Far, NoTime, testIssuer, {TestClientID}, "user-123", "org-456")
    [] s = "tok-k2"       -> Tok(TRUE, "K2", TRUE, Far, NoTime, testIssuer, {TestClientID, "other-client-id"}, "user-456", "")
    [] s = "tok-badsig"   -> Tok(TRUE, "K1", FALSE, 1, NoTime, testIssuer, {TestClientID}, "user-123", "")
    [] s = "tok-exp1"     -> Tok(TRUE, "K1", TRUE, 1, NoTime, testIssuer, {}, "user-123", "")
    [] s = "tok-evil"     -> Tok(TRUE, "K1", TRUE, Far, NoTime, EvilIssuer, {TestClientID}, "user-123", "")
    [] s = "tok-otheraud" -> Tok(TRUE, "K1", TRUE, NoTime, NoTime, testIssuer, {"other-client-id"}, "user-789", "")
    [] OTHER              -> Tok(FALSE, "", FALSE, NoTime, NoTime, "", {}, "", "")

\* ----------------------------------------------------------- error values
\* An error is the list of text fragments of its message plus the sentinel
\* errors it wraps (errors.Is); a fragment is contained in the message iff
\* it is one of the list.
NoErr == [text |-> <<>>, wraps |-> {}]
ErrInvalidToken == [text |-> <<"invalid token">>, wraps |-> {"ErrInvalidToken"}]
LibErr(frags) == [text |-> frags, wraps |-> {}]

\* fmt.Errorf(prefix + "%w" + suffix, e)
ErrorfW(prefix, e, suffix) == [text |-> prefix \o e.text \o suffix, wraps |-> e.wraps]
\* fmt.Errorf("%w" + sep + "%v", e, detail)
ErrorfWV(e, sep, detail) ==
  [text |-> e.text \o sep \o detail.text, wraps |-> e.wraps]

Contains(e, frag) == \E i \in 1..Len(e.text) : e.text[i] = frag

jwksURL(issuerURL) == <<issuerURL, "/.well-known/jwks.json">>

\* ------------------------------------------------------------- jwt.Parse
\* Variant without jwt.WithValidate(true): the time claims are not checked.
ParseKindNoValidate(s, ks, t) ==
  LET tk == Decode(s) IN
  IF ~tk.wf THEN "malformed"
  ELSE IF tk.kid \notin ks THEN "unknown_kid"
  ELSE IF ~tk.sig THEN "bad_signature"
  ELSE "ok"

\* jwt.Parse(token, WithKeySet(ks), WithValidate(true)): the failure of the
\* first stage that fails, or "ok".
ParseKind(s, ks, t) ==
  LET tk == Decode(s) IN
  IF ~tk.wf THEN "malformed"
  ELSE IF tk.kid \notin ks THEN "unknown_kid"
  ELSE IF ~tk.sig THEN "bad_signature"
  ELSE IF tk.exp # NoTime /\ t >= tk.exp THEN "expired"
  ELSE IF tk.nbf # NoTime /\ t < tk.nbf THEN "not_yet_valid"
  ELSE "ok"

ParseError(s, ks, t) ==
  LET k == ParseKind(s, ks, t) IN
  CASE k = "malformed"     -> LibErr(<<"failed to parse token: invalid compact serialization: ", s>>)
    [] k = "unknown_kid"   -> LibErr(<<"failed to find key with key ID ", Decode(s).kid, " in key set">>)
    [] k = "bad_signature" -> LibErr(<<"could not verify message using any of the signatures or keys">>)
    [] k = "expired"       -> LibErr(<<"\"exp\" not satisfied">>)
    [] k = "not_yet_valid" -> LibErr(<<"\"nbf\" not satisfied">>)
    [] OTHER               -> NoErr

\* ------------------------------------------------------------------ state
VARIABLES
  issuer, clientID,               \* OIDCVerifier configuration
  keySet, fetched, lastFetched,   \* OIDCVerifier cache fields
  writer, readers,                \* OIDCVerifier.mu (sync.RWMutex)
  pc, token, ctxDone,             \* each handler: position, argument, ctx.Done
  ks, attempt, forced,            \* Verify locals: keySet, parse attempt, which refresh
  result,                         \* what Verify returned
  logged,                         \* last slog.Warn record of each handler
  now, served, reachable,         \* clock and key source
  inFlight, fetchCount,           \* outstanding / started jwk.Fetch calls
  hist,                           \* per-call observations (history)
  environ,                        \* os.Getenv: the process environment
  proc,                           \* package main: run() progress and outcome
  request,                        \* the request the server handled last
  outbound,                       \* backend calls made for that request
  response,                       \* what the client got back
  metadata                        \* last ProtectedResourceMetadata built

cacheVars == <<keySet, fetched, lastFetched>>
muVars    == <<writer, readers>>
cfgVars   == <<issuer, clientID>>
envVars   == <<now, served, reachable>>
localVars == <<ks, attempt, forced>>
gwVars    == <<environ, proc, request, outbound, response, metadata>>
vars == <<issuer, clientID, keySet, fetched, lastFetched, writer, readers,
          pc, token, ctxDone, ks, attempt, forced, result, logged,
          now, served, reachable, inFlight, fetchCount, hist,
          environ, proc, request, outbound, response, metadata>>

\* ------------------------------------------------------- results of Verify
NoInfo == [UserID |-> "", Expiration |-> NoTime, Scopes |-> <<>>,
           Extra |-> [raw_token |-> "", sub |-> "", org_id |-> ""]]
NoResult == [returned |-> FALSE, ok |-> FALSE, info |-> NoInfo, err |-> NoErr]
NoLog == [msg |-> "", error |-> NoErr]

\* Variant that wraps the detail, as CognitoVerifier.Verify does:
\* fmt.Errorf("%w: %v", mcpauth.ErrInvalidToken, err)
LeakyFailure(detail) ==
  [returned |-> TRUE, ok |-> FALSE, info |-> NoInfo,
   err |-> ErrorfWV(ErrInvalidToken, <<": ">>, detail)]

\* return nil, fmt.Errorf("%w: token validation failed", mcpauth.ErrInvalidToken)
PublicFailure(detail) ==
  [returned |-> TRUE, ok |-> FALSE, info |-> NoInfo,
   err |-> ErrorfW(<<>>, ErrInvalidToken, <<": token validation failed">>)]

\* Variant without the fallback: the zero time is passed on.
ExpirationAsParsed(tk, t) == tk.exp

\* exp := parsed.Expiration(); if exp.IsZero() { exp = time.Now().Add(time.Hour) }
Expiration(tk, t) == IF tk.exp = NoTime THEN t + ExpFallback ELSE tk.exp

\* Variant that forwards the subject in place of the token string.
TokenInfoNoRaw(s, t) ==
  LET tk == Decode(s) IN
  [returned |-> TRUE, ok |-> TRUE, err |-> NoErr,
   info |-> [UserID |-> tk.sub, Expiration |-> Expiration(tk, t),
             Scopes |-> <<"openid", "profile">>,
             Extra |-> [raw_token |-> tk.sub, sub |-> tk.sub, org_id |-> tk.org]]]

\* return &mcpauth.TokenInfo{...}, nil
TokenInfo(s, t) ==
  LET tk == Decode(s) IN
  [returned |-> TRUE, ok |-> TRUE, err |-> NoErr,
   info |-> [UserID |-> tk.sub, Expiration |-> Expiration(tk, t),
             Scopes |-> <<"openid", "profile">>,
             Extra |-> [raw_token |-> s, sub |-> tk.sub, org_id |-> tk.org]]]

\* Variant that rejects only a token without an issuer claim.
IssuerMissingOnly(tk, iss) == tk.iss = ""

\* if parsed.Issuer() != v.issuer
IssuerMismatch(tk, iss) == tk.iss # iss

\* Variant without the v.clientID != "" guard.
AudienceAlwaysChecked(tk, cid) == cid \notin tk.aud

\* if v.clientID != "" { found := a == v.clientID for some a in aud; !found }
AudienceMismatch(tk, cid) == cid # "" /\ cid \notin tk.aud

\* Variant without the retry: a failed parse is final.
NeverRefresh(kind) == FALSE

\* if err != nil { keySet, refreshErr := v.refreshKeySet(ctx) ...
NeedsRefresh(kind) == kind # "ok"

\* Variant that retries after the second parse as well.
AnyAttempt(a) == TRUE

\* The forced refresh is written inside the error branch of the first
\* jwt.Parse only; an error of the second returns.
FirstAttempt(a) == a = 1

\* ------------------------------------------------------- the JWKS cache
\* Variant with the comparison reversed.
FreshReversed(f, set, last, t) == f /\ set # NoSet /\ t - last > jwksCacheTTL

\* Variant that still trusts a key set exactly one TTL old.
FreshInclusive(f, set, last, t) == f /\ set # NoSet /\ t - last <= jwksCacheTTL

\* Variant that never trusts the cache.
FreshNever(f, set, last, t) == FALSE

\* v.fetched && v.keySet != nil && time.Since(v.lastFetched) < jwksCacheTTL
Fresh(f, set, last, t) == f /\ set # NoSet /\ t - last < jwksCacheTTL

\* jwk.Fetch(ctx, v.jwksURL): the key set the source serves, or an error
\* when the context is done or the source does not answer with a key set.
FetchError(p) ==
  IF ctxDone[p] THEN LibErr(<<"failed to fetch ">> \o jwksURL(issuer) \o <<": context canceled">>)
  ELSE IF ~reachable THEN LibErr(<<"failed to fetch ">> \o jwksURL(issuer) \o <<": connection refused">>)
  ELSE NoErr

\* Variant that drops the cached key set when the fetch fails.
InstalledOrCleared(failed, set, t) ==
  IF failed THEN [keySet |-> NoSet, fetched |-> FALSE, lastFetched |-> NoTime]
  ELSE [keySet |-> set, fetched |-> TRUE, lastFetched |-> t]

\* Variant that adds the fetched keys to the cached key set.
InstalledMerged(failed, set, t) ==
  IF failed THEN [keySet |-> keySet, fetched |-> fetched, lastFetched |-> lastFetched]
  ELSE [keySet |-> (keySet \ NoSet) \cup set, fetched |-> TRUE, lastFetched |-> t]

\* refreshKeySet after jwk.Fetch returned: the cache fields it leaves.
Installed(failed, set, t) ==
  IF failed THEN [keySet |-> keySet, fetched |-> fetched, lastFetched |-> lastFetched]
  ELSE [keySet |-> set, fetched |-> TRUE, lastFetched |-> t]

\* sync.RWMutex: Lock takes the writers' mutex (new readers then wait) and
\* waits for the active readers to leave; RLock waits while a writer holds
\* or awaits the lock.
WriterFreeAlways(w) == TRUE   \* variant: refreshKeySet without v.mu.Lock()
WriterFree(w) == w = None
ReadersGone(r) == r = {}
ReaderAdmittedAlways(w) == TRUE   \* variant: getKeySet without v.mu.RLock()
ReaderAdmitted(w) == w = None

\* ----------------------------------------------------------------- history
\* onEmpty: the cache was empty when Verify was called; view, ks0: the cache as the
\* getKeySet check found it; err1: outcome of
\* the first parse; stable: throughout the call the key source was reachable
\* and served the token's key, and the context was live; prior: the calls
\* that had returned when this one began.
NoHist == [onEmpty |-> FALSE, view |-> "none", ks0 |-> NoSet, refreshes |-> 0, fetches |-> 0,
           parses |-> 0, err1 |-> "none", fetchFailed |-> FALSE,
           stable |-> TRUE, prior |-> {}]

Active(p) == pc[p] \notin {"idle", "done"}

\* The cache as an observer sees it, from the fields alone.
CacheView ==
  IF ~fetched \/ keySet = NoSet THEN "empty"
  ELSE IF now - lastFetched >= jwksCacheTTL THEN "stale" ELSE "fresh"

Unstable(P) == [q \in Procs |-> IF q \in P /\ Active(q)
                                 THEN [hist[q] EXCEPT !.stable = FALSE] ELSE hist[q]]

\* Verify returns res to handler p; its locals and context end with it.
Return(p, res) ==
  /\ result' = [result EXCEPT ![p] = res]
  /\ pc' = [pc EXCEPT ![p] = "done"]
  /\ ks' = [ks EXCEPT ![p] = NoSet]
  /\ attempt' = [attempt EXCEPT ![p] = 0]
  /\ forced' = [forced EXCEPT ![p] = FALSE]
  /\ ctxDone' = [ctxDone EXCEPT ![p] = FALSE]

\* ============================================================ the gateway
\* ------------------------------------------- process start (package main)
\* os.Getenv returns "" for a variable that is not set.
NoEnviron ==
  [PIDGR_MCP_TRANSPORT |-> "", PIDGR_API_KEY |-> "",
   PIDGR_AUTH_POOL_ID |-> "", PIDGR_AUTH_CLIENT_ID |-> ""]

Env(transport, key, pool, cid) ==
  [PIDGR_MCP_TRANSPORT |-> transport, PIDGR_API_KEY |-> key,
   PIDGR_AUTH_POOL_ID |-> pool, PIDGR_AUTH_CLIENT_ID |-> cid]

TestApiKey == "pidgr_k_test123"
TestPoolID == "us-east-1_xxx"

\* The environments a deployment starts the process in.
Environs ==
  {Env("", "", "", ""), Env("", TestApiKey, "", ""),
   Env("stdio", "", TestPoolID, ""), Env("stdio", TestApiKey, "", ""),
   Env("http", TestApiKey, "", ""), Env("http", "", TestPoolID, ""),
   Env("http", "", TestPoolID, TestClientID),
   Env("grpc", TestApiKey, TestPoolID, "")}

\* func getEnv(key, defaultValue string) string
getEnv(e, key, defaultValue) == IF e[key] # "" THEN e[key] ELSE defaultValue

NoCfg == [Transport |-> "", apiKey |-> "", AuthPoolID |-> "", AuthClientID |-> ""]

\* Variant that does not require the API key in stdio mode.
parseConfigNoKeyCheck(e) ==
  LET cfg == [Transport    |-> getEnv(e, "PIDGR_MCP_TRANSPORT", "stdio"),
              apiKey       |-> e["PIDGR_API_KEY"],
              AuthPoolID   |-> e["PIDGR_AUTH_POOL_ID"],
              AuthClientID |-> e["PIDGR_AUTH_CLIENT_ID"]]
  IN CASE cfg.Transport = "stdio" -> [cfg |-> cfg, err |-> NoErr]
       [] cfg.Transport = "http" ->
            IF cfg.AuthPoolID = ""
            THEN [cfg |-> NoCfg, err |-> LibErr(<<"PIDGR_AUTH_POOL_ID is required for http mode">>)]
            ELSE [cfg |-> cfg, err |-> NoErr]
       [] OTHER ->
            [cfg |-> NoCfg,
             err |-> LibErr(<<"PIDGR_MCP_TRANSPORT must be 'stdio' or 'http', got ", cfg.Transport>>)]

\* func parseConfig() (*config, error)
parseConfig(e) ==
  LET cfg == [Transport    |-> getEnv(e, "PIDGR_MCP_TRANSPORT", "stdio"),
              apiKey       |-> e["PIDGR_API_KEY"],
              AuthPoolID   |-> e["PIDGR_AUTH_POOL_ID"],
              AuthClientID |-> e["PIDGR_AUTH_CLIENT_ID"]]
  IN CASE cfg.Transport = "stdio" ->
            IF cfg.apiKey = ""
            THEN [cfg |-> NoCfg, err |-> LibErr(<<"PIDGR_API_KEY is required for stdio mode">>)]
            ELSE [cfg |-> cfg, err |-> NoErr]
       [] cfg.Transport = "http" ->
            IF cfg.AuthPoolID = ""
            THEN [cfg |-> NoCfg, err |-> LibErr(<<"PIDGR_AUTH_POOL_ID is required for http mode">>)]
            ELSE [cfg |-> cfg, err |-> NoErr]
       [] OTHER ->
            [cfg |-> NoCfg,
             err |-> LibErr(<<"PIDGR_MCP_TRANSPORT must be 'stdio' or 'http', got ", cfg.Transport>>)]

\* run(): stage "start" before parseConfig, "configured" after it succeeded,
\* "serving" once the transport runs, "exited" when run returned an error.
\* made: what run has created; clients: which interceptor the clients carry.
NoProc == [stage |-> "none", cfg |-> NoCfg, err |-> NoErr, made |-> {}, clients |-> "none"]

\* ------------------------------------------- protected-resource metadata
ResourceURL  == "https://mcp.pidgr.com"
MetadataPath == "/.well-known/oauth-protected-resource"
McpPath      == "/"

NoMetadata ==
  [Resource |-> "", AuthorizationServers |-> <<>>, ScopesSupported |-> <<>>,
   BearerMethodsSupported |-> <<>>, ResourceName |-> ""]

\* Variant that writes the server's own URL instead of the argument.
MetadataFixedResource(resourceURL, cognitoIssuer) ==
  [Resource |-> ResourceURL, AuthorizationServers |-> <<cognitoIssuer>>,
   ScopesSupported |-> <<"openid", "profile">>,
   BearerMethodsSupported |-> <<"header">>, ResourceName |-> "Pidgr MCP Server"]

\* func NewProtectedResourceMetadata(resourceURL, cognitoIssuer string)
NewProtectedResourceMetadata(resourceURL, cognitoIssuer) ==
  [Resource |-> resourceURL, AuthorizationServers |-> <<cognitoIssuer>>,
   ScopesSupported |-> <<"openid", "profile">>,
   BearerMethodsSupported |-> <<"header">>, ResourceName |-> "Pidgr MCP Server"]

\* URL arguments the builder is called with.
URLArgs == {"", "mcp.pidgr.com", "/relative/path", ResourceURL, testIssuer}

\* ------------------------------------------------ outbound interceptors
\* A call context: ti, it carries a TokenInfo; rawKind, what
\* Extra["raw_token"] holds ("absent", "number" or "string"); raw, the string.
NoTokenCtx == [ti |-> FALSE, rawKind |-> "absent", raw |-> ""]

\* The context RequireBearerToken hands on: it carries the TokenInfo that
\* Verify returned.
CtxWith(info) == [ti |-> TRUE, rawKind |-> "string", raw |-> info.Extra.raw_token]

\* Contexts of calls that did not pass the middleware.
BareContexts ==
  {NoTokenCtx,
   [ti |-> TRUE, rawKind |-> "absent", raw |-> ""],
   [ti |-> TRUE, rawKind |-> "number", raw |-> ""],
   [ti |-> TRUE, rawKind |-> "string", raw |-> "eyJtest"]}

\* req.Header().Set("Authorization", "Bearer "+token)
staticTokenInterceptor(tokenString) == "Bearer " \o tokenString

\* Variant without the checks on the context.
dynamicTokenInterceptorUnchecked(ctx) == "Bearer " \o ctx.raw

\* if ti := auth.TokenInfoFromContext(ctx); ti != nil {
\*   if token, ok := ti.Extra["raw_token"].(string); ok { Set(...) } }
\* "" is the header left unset.
dynamicTokenInterceptor(ctx) ==
  IF ctx.ti /\ ctx.rawKind = "string" THEN "Bearer " \o ctx.raw ELSE ""

\* The Authorization header a client of the given kind sends.
Authorization(clients, apiKey, ctx) ==
  IF clients = "static" THEN staticTokenInterceptor(apiKey)
  ELSE dynamicTokenInterceptor(ctx)

\* --------------------------------------- the bearer-token middleware
\* An inbound Authorization header, as strings.Fields splits it.
NoAuth == <<>>
AuthHeaders ==
  {NoAuth, <<"Basic", "dXNlcjpwdw==">>, <<"Bearer">>, <<"bearer", "tok-valid">>}
    \cup {<<"Bearer", s>> : s \in TokenStrings}

ToLower(s) ==
  CASE s = "Bearer" -> "bearer"
    [] s = "Basic"  -> "basic"
    [] OTHER        -> s

\* len(fields) != 2 || strings.ToLower(fields[0]) != "bearer"
HasBearer(fields) == Len(fields) = 2 /\ ToLower(fields[1]) = "bearer"

\* Verify run to completion with no other call in progress: getKeySet, the
\* parse, the forced refresh and second parse, the claim checks.  cache: the
\* cache fields it leaves; fetches: the fetches it made.
VerifySeq(s) ==
  LET fresh   == Fresh(fetched, keySet, lastFetched, now)
      down    == ~reachable
      ks1     == IF fresh THEN keySet ELSE served
      k1      == ParseKind(s, ks1, now)
      retry   == k1 # "ok" /\ NeedsRefresh(k1)
      k2      == IF retry THEN ParseKind(s, served, now) ELSE k1
      tk      == Decode(s)
      fetches == (IF fresh THEN 0 ELSE 1)
                 + (IF retry /\ (fresh \/ ~down) THEN 1 ELSE 0)
      res     == IF (~fresh \/ retry) /\ down
                   THEN PublicFailure(LibErr(<<"failed to fetch key set">>))
                 ELSE IF k2 # "ok" THEN PublicFailure(ParseError(s, served, now))
                 ELSE IF IssuerMismatch(tk, issuer)
                   THEN PublicFailure(LibErr(<<"invalid issuer: got ", tk.iss>>))
                 ELSE IF AudienceMismatch(tk, clientID)
                   THEN PublicFailure(LibErr(<<"invalid audience">>))
                 ELSE TokenInfo(s, now)
  IN [res |-> res, fetches |-> fetches,
      cache |-> Installed(down \/ fetches = 0, served, now)]

\* Variant that passes a request on when verification failed.
RequireBearerTokenOpen(fields) ==
  [code |-> 0, errmsg |-> <<>>, ctx |-> NoTokenCtx, verified |-> FALSE,
   v |-> [res |-> NoResult, fetches |-> 0,
          cache |-> [keySet |-> keySet, fetched |-> fetched, lastFetched |-> lastFetched]]]

\* mcpauth.RequireBearerToken(verifier.Verify, opts): code 0 passes the
\* request on with the TokenInfo in its context; otherwise the status sent.
RequireBearerToken(fields) ==
  LET keep == [res |-> NoResult, fetches |-> 0,
               cache |-> [keySet |-> keySet, fetched |-> fetched, lastFetched |-> lastFetched]]
      v    == IF HasBearer(fields) THEN VerifySeq(fields[2]) ELSE keep
      deny(msg) == [code |-> 401, errmsg |-> msg, ctx |-> NoTokenCtx,
                    verified |-> v.res.ok, v |-> v]
  IN IF ~HasBearer(fields) THEN deny(<<"no bearer token">>)
     ELSE IF ~v.res.ok THEN
       IF "ErrInvalidToken" \in v.res.err.wraps THEN deny(v.res.err.text)
       ELSE [code |-> 500, errmsg |-> v.res.err.text, ctx |-> NoTokenCtx, verified |-> FALSE, v |-> v]
     ELSE IF v.res.info.Expiration = NoTime THEN deny(<<"token missing expiration">>)
     ELSE IF v.res.info.Expiration < now THEN deny(<<"token expired">>)
     ELSE [code |-> 0, errmsg |-> <<>>, ctx |-> CtxWith(v.res.info),
           verified |-> TRUE, v |-> v]

\* ------------------------------------------------ convert.ErrorResult
\* connect.Code values by name; "code_99" stands for a code outside the
\* sixteen the protocol defines.
ConnectCodes ==
  {"canceled", "unknown", "invalid_argument", "deadline_exceeded", "not_found",
   "already_exists", "permission_denied", "resource_exhausted",
   "failed_precondition", "aborted", "out_of_range", "unimplemented",
   "internal", "unavailable", "data_loss", "unauthenticated", "code_99"}

\* var genericMessage = map[connect.Code]string{...}
genericMessage ==
  [canceled            |-> "Request canceled",
   invalid_argument    |-> "Invalid input",
   not_found           |-> "Not found",
   already_exists      |-> "Already exists",
   permission_denied   |-> "Permission denied",
   resource_exhausted  |-> "Too many requests",
   failed_precondition |-> "Operation not allowed in current state",
   aborted             |-> "Operation aborted",
   out_of_range        |-> "Value out of range",
   unimplemented       |-> "Not supported",
   internal            |-> "Internal error",
   unavailable         |-> "Service unavailable",
   data_loss           |-> "Data loss",
   unauthenticated     |-> "Authentication required",
   deadline_exceeded   |-> "Request timed out"]

\* Go errors a tool handler meets.  kind "connect": a *connect.Error in the
\* chain; notModified: it wraps connect's not-modified sentinel.
NoToolErr == [kind |-> "nil", code |-> "", msg |-> "", notModified |-> FALSE]
ConnectError(code, msg) == [kind |-> "connect", code |-> code, msg |-> msg, notModified |-> FALSE]
NotModifiedError == [kind |-> "connect", code |-> "unknown", msg |-> "not modified", notModified |-> TRUE]
PlainError(msg) == [kind |-> "plain", code |-> "", msg |-> msg, notModified |-> FALSE]

BackendMsg == "user lacks CAMPAIGNS_WRITE on org_abc123"

\* What a backend call returns to the handler: a response or an error.
Answers ==
  {NoToolErr, NotModifiedError, PlainError("dial tcp 10.0.0.7:50051: connection refused")}
    \cup {ConnectError(c, BackendMsg) : c \in ConnectCodes}

\* connect.IsNotModifiedError(err)
IsNotModifiedError(e) == e.notModified

\* connect.CodeOf(err)
CodeOf(e) == IF e.kind = "connect" THEN e.code ELSE "unknown"

NoToolResult == [IsError |-> FALSE, Content |-> <<>>]
NoCall == [result |-> NoToolResult, err |-> NoErr]

\* Variant that reports the error's own text, as err.Error() would.
ErrorResultVerbose(e) ==
  [result |-> [IsError |-> TRUE, Content |-> <<e.msg>>], err |-> NoErr]

\* func ErrorResult(err error) (*mcp.CallToolResult, error)
ErrorResult(e) ==
  IF IsNotModifiedError(e)
  THEN [result |-> [IsError |-> TRUE, Content |-> <<"Not modified">>], err |-> NoErr]
  ELSE IF CodeOf(e) # "unknown"
  THEN [result |-> [IsError |-> TRUE,
                    Content |-> <<IF CodeOf(e) \in DOMAIN genericMessage
                                  THEN genericMessage[CodeOf(e)]
                                  ELSE "Request failed">>],
        err |-> NoErr]
  ELSE [result |-> [IsError |-> TRUE, Content |-> <<"Request failed">>], err |-> NoErr]

\* func SuccessResult(text string) *mcp.CallToolResult
SuccessResult(text) == [IsError |-> FALSE, Content |-> <<text>>]

\* convert.ProtoResult(resp.Msg): the response message as JSON text.
ProtoResult(tool) ==
  [result |-> [IsError |-> FALSE, Content |-> <<"{...}">>], err |-> NoErr]

\* -------------------------------------------------- tools: batch sizes
maxBatchSize == 1000
teamBatchSize == 100

\* Variant that also rejects a list of exactly max entries.
validateBatchSizeInclusive(n, max) ==
  IF n >= max THEN PlainError("batch size exceeds maximum") ELSE NoToolErr

\* func validateBatchSize(ids []string, max int) error; a list of user IDs is
\* modelled by its length.
validateBatchSize(n, max) ==
  IF n > max THEN PlainError("batch size exceeds maximum") ELSE NoToolErr

BatchTools ==
  {"create_campaign", "add_group_members", "remove_group_members",
   "add_team_members", "remove_team_members"}

\* The check each handler makes on input.UserIDs before it builds the request.
BatchError(tool, n) ==
  CASE tool = "create_campaign" -> validateBatchSize(n, maxBatchSize)
    [] tool \in {"add_team_members", "remove_team_members"} ->
         validateBatchSize(n, teamBatchSize)
    [] OTHER -> NoToolErr

\* Lengths of user_ids lists presented.
BatchSizes == {0, 100, 101, 1000, 1001, 100000, 100001}

\* -------------------------------------------------- tools: pagination
maxPageSize == 100
defaultPageSize == 20

\* The range of the int32 page_size field.
MinInt32 == -2147483647 - 1
MaxInt32 == 2147483647

\* Variant that defaults a negative size only.
clampPageSizeNegativeOnly(size) ==
  IF size < 0 THEN defaultPageSize
  ELSE IF size > maxPageSize THEN maxPageSize
  ELSE size

\* func clampPageSize(size int32) int32
clampPageSize(size) ==
  IF size <= 0 THEN defaultPageSize
  ELSE IF size > maxPageSize THEN maxPageSize
  ELSE size

\* The list tools whose handler builds Pagination.PageSize with clampPageSize.
ClampedTools ==
  {"list_campaigns", "list_deliveries", "list_templates", "list_teams",
   "list_team_members"}
\* The list tools whose handler builds Pagination.PageSize from input.PageSize.
UnclampedTools ==
  {"list_groups", "list_group_members", "list_users", "list_session_recordings"}
PagedTools == ClampedTools \cup UnclampedTools

\* Pagination.PageSize as the tool's handler sets it.
PageSize(tool, size) ==
  IF tool \in ClampedTools THEN clampPageSize(size) ELSE size

\* Page sizes and page tokens presented.
PageSizes == {MinInt32, -1, 0, 1, 50, 100, 101, 200, MaxInt32}
PageTokens == {"", "next-page-2"}

\* ------------------------------------------------------- tools: enums
\* The generated name tables of the pidgr.v1 enums (pidgrv1.X_value): every
\* value name carries the type's prefix and UNSPECIFIED is 0.
DeliveryStatus_value ==
  [DELIVERY_STATUS_UNSPECIFIED |-> 0, DELIVERY_STATUS_PENDING |-> 1,
   DELIVERY_STATUS_SENT |-> 2, DELIVERY_STATUS_DELIVERED |-> 3,
   DELIVERY_STATUS_ACKNOWLEDGED |-> 4, DELIVERY_STATUS_MISSED |-> 5,
   DELIVERY_STATUS_NO_DEVICE |-> 6, DELIVERY_STATUS_FAILED |-> 7]
TemplateType_value ==
  [TEMPLATE_TYPE_UNSPECIFIED |-> 0, TEMPLATE_TYPE_MARKDOWN |-> 1,
   TEMPLATE_TYPE_RICH |-> 2, TEMPLATE_TYPE_HTML |-> 3]
TemplateVariableSource_value ==
  [TEMPLATE_VARIABLE_SOURCE_UNSPECIFIED |-> 0, TEMPLATE_VARIABLE_SOURCE_PROFILE |-> 1,
   TEMPLATE_VARIABLE_SOURCE_CUSTOM |-> 2]
Industry_value ==
  [INDUSTRY_UNSPECIFIED |-> 0, INDUSTRY_TECHNOLOGY |-> 1, INDUSTRY_FINANCE |-> 2,
   INDUSTRY_HEALTHCARE |-> 3, INDUSTRY_EDUCATION |-> 4, INDUSTRY_RETAIL |-> 5,
   INDUSTRY_MANUFACTURING |-> 6, INDUSTRY_MEDIA |-> 7, INDUSTRY_OTHER |-> 8]
CompanySize_value ==
  [COMPANY_SIZE_UNSPECIFIED |-> 0, COMPANY_SIZE_1_200 |-> 1, COMPANY_SIZE_200_500 |-> 2,
   COMPANY_SIZE_500_1000 |-> 3, COMPANY_SIZE_1000_5000 |-> 4, COMPANY_SIZE_5000_PLUS |-> 5]
HeatmapMode_value ==
  [HEATMAP_MODE_UNSPECIFIED |-> 0, HEATMAP_MODE_TOTAL |-> 1, HEATMAP_MODE_MEDIAN |-> 2,
   HEATMAP_MODE_USER_SPECIFIC |-> 3]
TouchEventType_value ==
  [TOUCH_EVENT_TYPE_UNSPECIFIED |-> 0, TOUCH_EVENT_TYPE_TAP |-> 1,
   TOUCH_EVENT_TYPE_LONG_PRESS |-> 2, TOUCH_EVENT_TYPE_SCROLL |-> 3,
   TOUCH_EVENT_TYPE_ACTION_CLICK |-> 4]
Permission_value ==
  [PERMISSION_UNSPECIFIED |-> 0, PERMISSION_CAMPAIGNS_READ |-> 1,
   PERMISSION_CAMPAIGNS_WRITE |-> 2, PERMISSION_GROUPS_WRITE |-> 3,
   PERMISSION_ORG_WRITE |-> 4]

\* Variant without the short-name branch.
EnumLookupFullOnly(tbl, prefix, s) ==
  IF s \in DOMAIN tbl THEN <<tbl[s]>> ELSE <<>>

\* if v, ok := X_value[s]; ok {...} else if v, ok := X_value[prefix+s]; ok {...}
\* The value found, as a list of one, or the empty list.
EnumLookup(tbl, prefix, s) ==
  IF s \in DOMAIN tbl THEN <<tbl[s]>>
  ELSE IF (prefix \o s) \in DOMAIN tbl THEN <<tbl[prefix \o s]>>
  ELSE <<>>

\* x := X_UNSPECIFIED; if ... { x = X(v) }
ScalarEnum(tbl, prefix, s) ==
  LET f == EnumLookup(tbl, prefix, s) IN IF f = <<>> THEN 0 ELSE f[1]

\* for _, p := range list { if ... { result = append(result, X(v)) } }
RECURSIVE ListEnum(_, _, _)
ListEnum(tbl, prefix, list) ==
  IF list = <<>> THEN <<>>
  ELSE EnumLookup(tbl, prefix, Head(list)) \o ListEnum(tbl, prefix, Tail(list))

\* list_deliveries: statusFilter (looked up only if input.StatusFilter != "")
statusFilter(s) ==
  IF s # "" THEN ScalarEnum(DeliveryStatus_value, "DELIVERY_STATUS_", s) ELSE 0
\* create_template, list_templates: templateType
templateType(s) == ScalarEnum(TemplateType_value, "TEMPLATE_TYPE_", s)
\* toProtoVariables: source
variableSource(s) == ScalarEnum(TemplateVariableSource_value, "TEMPLATE_VARIABLE_SOURCE_", s)
\* create_organization, update_organization: industry, companySize
industry(s) == ScalarEnum(Industry_value, "INDUSTRY_", s)
companySize(s) == ScalarEnum(CompanySize_value, "COMPANY_SIZE_", s)
\* query_heatmap_data: protoReq.Mode (looked up only if input.Mode != "")
heatmapMode(s) ==
  IF s # "" THEN ScalarEnum(HeatmapMode_value, "HEATMAP_MODE_", s) ELSE 0
\* query_heatmap_data: protoReq.EventTypes
eventTypes(list) == ListEnum(TouchEventType_value, "TOUCH_EVENT_TYPE_", list)
\* func toProtoPermissions(perms []string) []pidgrv1.Permission
toProtoPermissions(perms) == ListEnum(Permission_value, "PERMISSION_", perms)

\* The enum-valued tools and the strings presented to them.
EnumTools ==
  {"list_deliveries", "create_template", "create_organization",
   "query_heatmap_data", "create_role"}

\* The tools whose handler answers a successful call with a fixed text.
VoidTools == {"revoke_api_key", "delete_group", "delete_team", "delete_role"}
VoidText(tool) ==
  CASE tool = "revoke_api_key" -> "API key revoked successfully"
    [] tool = "delete_group" -> "Group deleted successfully"
    [] tool = "delete_team" -> "Team deleted successfully"
    [] OTHER -> "Role deleted successfully"

\* The remaining tools: the handler builds the request from the input and
\* makes the call; the fields they carry are not modelled.
PlainTools ==
  {"list_api_keys", "update_campaign", "start_campaign", "get_campaign",
   "cancel_campaign", "create_group", "get_group", "update_group",
   "get_user_group_memberships", "list_screenshots", "invite_user", "get_user",
   "update_user_role", "deactivate_user", "update_user_profile",
   "get_organization", "update_organization", "update_sso_attribute_mappings",
   "get_session_snapshots", "update_template", "get_template", "create_team",
   "get_team", "update_team", "list_roles", "update_role"}

\* The tools RegisterAll registers.
Tools ==
  BatchTools \cup EnumTools \cup PagedTools \cup VoidTools \cup PlainTools
    \cup {"create_api_key"}

\* time.Parse(time.RFC3339, s) on the strings presented: the instant, as a
\* list of one, or the empty list when s is not an RFC 3339 time.
RFC3339 == [x \in {"2030-01-01T00:00:00Z"} |-> 1893456000]
ExpiryInputs == {"", "2030-01-01T00:00:00Z", "tomorrow"}
ParseTime(s) == IF s \in DOMAIN RFC3339 THEN <<RFC3339[s]>> ELSE <<>>

Junk == {"", "pending", "BOGUS"}
Names(tbl, prefix, shorts) == DOMAIN tbl \cup shorts \cup Junk

StatusInputs == Names(DeliveryStatus_value, "DELIVERY_STATUS_",
                      {"UNSPECIFIED", "PENDING", "SENT", "DELIVERED", "ACKNOWLEDGED",
                       "MISSED", "NO_DEVICE", "FAILED"})
TypeInputs == Names(TemplateType_value, "TEMPLATE_TYPE_", {"MARKDOWN", "RICH", "HTML"})
SourceInputs == {"", "PROFILE", "TEMPLATE_VARIABLE_SOURCE_CUSTOM", "BOGUS"}
IndustryInputs == {"", "TECHNOLOGY", "INDUSTRY_TECHNOLOGY", "OTHER", "INDUSTRY_OTHER", "BOGUS"}
SizeInputs == {"", "1_200", "COMPANY_SIZE_1_200", "5000_PLUS", "BOGUS"}
ModeInputs == Names(HeatmapMode_value, "HEATMAP_MODE_", {"TOTAL", "MEDIAN", "USER_SPECIFIC"})
EventInputs ==
  {<<>>, <<"TAP">>, <<"TOUCH_EVENT_TYPE_TAP">>, <<"BOGUS">>,
   <<"TAP", "BOGUS", "TOUCH_EVENT_TYPE_SCROLL">>, <<"LONG_PRESS", "ACTION_CLICK">>}
PermissionInputs ==
  {<<>>, <<"CAMPAIGNS_READ">>, <<"PERMISSION_CAMPAIGNS_READ">>, <<"BOGUS">>,
   <<"PERMISSION_CAMPAIGNS_WRITE", "bogus", "GROUPS_WRITE">>,
   <<"ORG_WRITE", "PERMISSION_ORG_WRITE">>}

\* A tool input: user_ids, the length of the user_ids list; e1, e2, the
\* enum-valued scalars; es, the enum-valued list; page_size, page_token and
\* expires_at, the fields of those names.
Input(n, e1, e2, es) ==
  [user_ids |-> n, e1 |-> e1, e2 |-> e2, es |-> es,
   page_size |-> 0, page_token |-> "", expires_at |-> ""]
NoInput == Input(0, "", "", <<>>)
Page(size, tk) == [NoInput EXCEPT !.page_size = size, !.page_token = tk]

PageInputs ==
  {Page(n, "") : n \in PageSizes} \cup {Page(n, tk) : n \in {0, 50}, tk \in PageTokens}

InputsOf(tool) ==
  CASE tool \in BatchTools -> {Input(n, "", "", <<>>) : n \in BatchSizes}
    [] tool = "list_deliveries" ->
         {Input(0, s, "", <<>>) : s \in StatusInputs}
           \cup PageInputs
    [] tool = "list_templates" ->
         {Input(0, s, "", <<>>) : s \in {"RICH", "BOGUS"}}
           \cup PageInputs
    [] tool \in PagedTools -> PageInputs
    [] tool = "create_api_key" ->
         {[NoInput EXCEPT !.expires_at = s] : s \in ExpiryInputs}
           \cup {Input(0, "", "", l) : l \in {<<"ORG_WRITE", "BOGUS">>}}
    [] tool \in VoidTools \cup PlainTools -> {NoInput}
    [] tool = "create_template" ->
         {Input(0, s, v, <<>>) : s \in TypeInputs, v \in SourceInputs}
    [] tool = "create_organization" ->
         {Input(0, s, v, <<>>) : s \in IndustryInputs, v \in SizeInputs}
    [] tool = "query_heatmap_data" ->
         {Input(0, s, "", <<>>) : s \in {"", "TOTAL", "HEATMAP_MODE_MEDIAN", "BOGUS"}}
           \cup {Input(0, "", "", l) : l \in EventInputs}
           \cup {Input(0, s, "", <<>>) : s \in ModeInputs}
    [] OTHER -> {Input(0, "", "", l) : l \in PermissionInputs}

\* The error a handler finds in its input before it builds the request:
\* create_api_key parses expires_at, the batch tools check user_ids.
InputError(tool, in) ==
  CASE tool = "create_api_key" ->
         IF in.expires_at # "" /\ ParseTime(in.expires_at) = <<>>
         THEN PlainError("parsing time: cannot parse as 2006-01-02T15:04:05Z07:00")
         ELSE NoToolErr
    [] OTHER -> BatchError(tool, in.user_ids)

\* The proto request the handler builds from the input.
NoMsg ==
  [UserIds |-> 0, E1 |-> 0, E2 |-> 0, Es |-> <<>>,
   PageSize |-> 0, PageToken |-> "", ExpiresAt |-> <<>>]
ProtoRequest(tool, in) ==
  CASE tool \in BatchTools -> [NoMsg EXCEPT !.UserIds = in.user_ids]
    [] tool = "list_deliveries" ->
         [NoMsg EXCEPT !.E1 = statusFilter(in.e1),
                       !.PageSize = PageSize(tool, in.page_size),
                       !.PageToken = in.page_token]
    [] tool = "list_templates" ->
         [NoMsg EXCEPT !.E1 = templateType(in.e1),
                       !.PageSize = PageSize(tool, in.page_size),
                       !.PageToken = in.page_token]
    [] tool \in PagedTools ->
         [NoMsg EXCEPT !.PageSize = PageSize(tool, in.page_size),
                       !.PageToken = in.page_token]
    [] tool = "create_api_key" ->
         [NoMsg EXCEPT !.Es = toProtoPermissions(in.es),
                       !.ExpiresAt = IF in.expires_at # ""
                                     THEN ParseTime(in.expires_at) ELSE <<>>]
    [] tool \in VoidTools \cup PlainTools -> NoMsg
    [] tool = "create_template" ->
         [NoMsg EXCEPT !.E1 = templateType(in.e1), !.E2 = variableSource(in.e2)]
    [] tool = "create_organization" ->
         [NoMsg EXCEPT !.E1 = industry(in.e1), !.E2 = companySize(in.e2)]
    [] tool = "query_heatmap_data" ->
         [NoMsg EXCEPT !.E1 = heatmapMode(in.e1), !.Es = eventTypes(in.es)]
    [] OTHER -> [NoMsg EXCEPT !.Es = toProtoPermissions(in.es)]

\* ------------------------------------------- requests and what they leave
NoRequest ==
  [kind |-> "none", path |-> "", auth |-> NoAuth, ctx |-> NoTokenCtx,
   verified |-> FALSE, tool |-> "", input |-> NoInput, answer |-> NoToolErr,
   stage |-> "idle", args |-> <<>>]
NoResponse == [status |-> 0, challenge |-> "", body |-> <<>>, doc |-> NoMetadata,
               call |-> NoCall, handled |-> FALSE]
NoOutbound == <<>>

\* ------------------------------------------------------------------- Init
\* NewOIDCVerifier: configuration set, cache empty, mutex unlocked.
Init ==
  /\ issuer = testIssuer
  /\ clientID \in ClientIDs
  /\ keySet = NoSet /\ fetched = FALSE /\ lastFetched = NoTime
  /\ writer = None /\ readers = {}
  /\ pc = [p \in Procs |-> "idle"]
  /\ token = [p \in Procs |-> ""]
  /\ ctxDone = [p \in Procs |-> FALSE]
  /\ ks = [p \in Procs |-> NoSet]
  /\ attempt = [p \in Procs |-> 0]
  /\ forced = [p \in Procs |-> FALSE]
  /\ result = [p \in Procs |-> NoResult]
  /\ logged = [p \in Procs |-> NoLog]
  /\ now = 0
  /\ served = FirstServed
  /\ reachable \in BOOLEAN
  /\ inFlight = {} /\ fetchCount = 0
  /\ hist = [p \in Procs |-> NoHist]
  /\ environ = NoEnviron /\ proc = NoProc
  /\ request = NoRequest /\ outbound = NoOutbound
  /\ response = NoResponse /\ metadata = NoMetadata

\* ------------------------------------------------------------ Verify steps
\* Handler p receives a request and calls v.Verify(ctx, s, req); the first
\* statement is getKeySet, which starts with v.mu.RLock().
Call(p, s) ==
  /\ pc[p] = "idle"
  /\ pc' = [pc EXCEPT ![p] = "rlock"]
  /\ token' = [token EXCEPT ![p] = s]
  /\ hist' = [hist EXCEPT ![p].onEmpty = ~fetched,
                          ![p].prior = {q \in Procs : pc[q] = "done"},
                          ![p].stable = (reachable /\ Decode(s).kid \in served)]
  /\ UNCHANGED <<gwVars, cfgVars, cacheVars, muVars, ctxDone, localVars, result,
                 logged, envVars, inFlight, fetchCount>>

\* getKeySet: v.mu.RLock() is granted.
RLock(p) ==
  /\ pc[p] = "rlock"
  /\ ReaderAdmitted(writer)
  /\ readers' = readers \cup {p}
  /\ pc' = [pc EXCEPT ![p] = "check"]
  /\ UNCHANGED <<gwVars, cfgVars, cacheVars, writer, token, ctxDone, localVars,
                 result, logged, envVars, inFlight, fetchCount, hist>>

\* getKeySet under the read lock: return the cached set if fresh, else
\* release the read lock and call refreshKeySet.
Check(p) ==
  /\ pc[p] = "check"
  /\ readers' = readers \ {p}
  /\ hist' = [hist EXCEPT ![p].view = CacheView, ![p].ks0 = keySet]
  /\ IF Fresh(fetched, keySet, lastFetched, now)
     THEN /\ ks' = [ks EXCEPT ![p] = keySet]
          /\ attempt' = [attempt EXCEPT ![p] = 1]
          /\ pc' = [pc EXCEPT ![p] = "parse"]
     ELSE /\ pc' = [pc EXCEPT ![p] = "lock"]
          /\ UNCHANGED <<ks, attempt>>
  /\ UNCHANGED <<gwVars, cfgVars, cacheVars, writer, token, ctxDone, forced, result, logged,
                 envVars, inFlight, fetchCount>>

\* refreshKeySet: v.mu.Lock() takes the writers' mutex.
Lock(p) ==
  /\ pc[p] = "lock"
  /\ WriterFree(writer)
  /\ writer' = p
  /\ pc' = [pc EXCEPT ![p] = "drain"]
  /\ UNCHANGED <<gwVars, cfgVars, cacheVars, readers, token, ctxDone, localVars,
                 result, logged, envVars, inFlight, fetchCount, hist>>

\* refreshKeySet: the lock is held once the readers have left; jwk.Fetch
\* sends its request.
FetchStart(p) ==
  /\ pc[p] = "drain"
  /\ ReadersGone(readers)
  /\ pc' = [pc EXCEPT ![p] = "fetch"]
  /\ inFlight' = inFlight \cup {p}
  /\ fetchCount' = fetchCount + 1
  /\ hist' = [hist EXCEPT ![p].fetches = @ + 1]
  /\ UNCHANGED <<gwVars, cfgVars, cacheVars, muVars, token, ctxDone, localVars,
                 result, logged, envVars>>

\* refreshKeySet: jwk.Fetch returns.  On an error the deferred Unlock runs
\* and Verify returns the failure; on success the first of the three
\* assignments, v.keySet = keySet, is made under the lock.
FetchReturn(p) ==
  /\ pc[p] = "fetch"
  /\ LET e      == FetchError(p)
         failed == e # NoErr
         c      == Installed(failed, served, now)
         wrapped == ErrorfW(<<"failed to fetch key set: ">>, e, <<>>)
     IN /\ keySet' = c.keySet
        /\ inFlight' = inFlight \ {p}
        /\ IF failed
           THEN /\ fetched' = c.fetched
                /\ lastFetched' = c.lastFetched
                /\ writer' = IF writer = p THEN None ELSE writer
                /\ logged' = [logged EXCEPT ![p] =
                     [msg |-> IF forced[p] THEN "JWKS refresh failed" ELSE "JWKS fetch failed",
                      error |-> wrapped]]
                /\ hist' = [hist EXCEPT ![p].fetchFailed = TRUE]
                /\ Return(p, PublicFailure(wrapped))
           ELSE /\ ks' = [ks EXCEPT ![p] = served]
                /\ pc' = [pc EXCEPT ![p] = "store"]
                /\ UNCHANGED <<fetched, lastFetched, writer, attempt, logged, hist,
                               result, forced, ctxDone>>
  /\ UNCHANGED <<gwVars, cfgVars, readers, token, envVars, fetchCount>>

\* refreshKeySet: v.fetched = true, still under the lock.
Store(p) ==
  /\ pc[p] = "store"
  /\ fetched' = Installed(FALSE, ks[p], now).fetched
  /\ pc' = [pc EXCEPT ![p] = "stamp"]
  /\ UNCHANGED <<gwVars, cfgVars, keySet, lastFetched, muVars, token, ctxDone,
                 localVars, result, logged, envVars, inFlight, fetchCount, hist>>

\* refreshKeySet: v.lastFetched = time.Now(), then return keySet, nil with
\* the deferred Unlock; back in Verify the parse follows.
Stamp(p) ==
  /\ pc[p] = "stamp"
  /\ lastFetched' = Installed(FALSE, ks[p], now).lastFetched
  /\ writer' = IF writer = p THEN None ELSE writer
  /\ attempt' = [attempt EXCEPT ![p] = IF forced[p] THEN 2 ELSE 1]
  /\ pc' = [pc EXCEPT ![p] = "parse"]
  /\ UNCHANGED <<gwVars, cfgVars, keySet, fetched, readers, token, ctxDone, ks,
                 forced, result, logged, envVars, inFlight, fetchCount, hist>>

\* Verify: jwt.Parse with the key set in hand, then on failure the forced
\* refresh (first attempt) or the failure (second attempt); on success the
\* issuer and audience checks and the TokenInfo.
Parse(p) ==
  /\ pc[p] = "parse"
  /\ LET kind == ParseKind(token[p], ks[p], now)
         e    == ParseError(token[p], ks[p], now)
         tk   == Decode(token[p])
         h    == [hist[p] EXCEPT !.parses = @ + 1,
                                 !.err1 = IF attempt[p] = 1 THEN kind ELSE @]
     IN IF kind # "ok"
        THEN IF FirstAttempt(attempt[p]) /\ NeedsRefresh(kind)
             THEN /\ forced' = [forced EXCEPT ![p] = TRUE]
                  /\ pc' = [pc EXCEPT ![p] = "lock"]
                  /\ hist' = [hist EXCEPT ![p] = [h EXCEPT !.refreshes = @ + 1]]
                  /\ UNCHANGED <<logged, result, ks, attempt, ctxDone>>
             ELSE /\ logged' = [logged EXCEPT ![p] =
                       [msg |-> "token parse failed after JWKS refresh", error |-> e]]
                  /\ hist' = [hist EXCEPT ![p] = h]
                  /\ Return(p, PublicFailure(e))
        ELSE /\ hist' = [hist EXCEPT ![p] = h]
             /\ IF IssuerMismatch(tk, issuer)
                THEN /\ logged' = [logged EXCEPT ![p] = [msg |-> "token issuer mismatch", error |-> NoErr]]
                     /\ Return(p, PublicFailure(LibErr(<<"invalid issuer: got ", tk.iss>>)))
                ELSE IF AudienceMismatch(tk, clientID)
                THEN /\ logged' = [logged EXCEPT ![p] = [msg |-> "token audience mismatch", error |-> NoErr]]
                     /\ Return(p, PublicFailure(LibErr(<<"invalid audience">>)))
                ELSE /\ Return(p, TokenInfo(token[p], now))
                     /\ UNCHANGED logged
  /\ UNCHANGED <<gwVars, cfgVars, cacheVars, muVars, token, envVars, inFlight, fetchCount>>

\* ------------------------------------------------------------ environment
\* The caller's request context is cancelled or its deadline passes.
Cancel(p) ==
  /\ Active(p) /\ ~ctxDone[p]
  /\ ctxDone' = [ctxDone EXCEPT ![p] = TRUE]
  /\ hist' = Unstable({p})
  /\ UNCHANGED <<gwVars, cfgVars, cacheVars, muVars, pc, token, localVars, result,
                 logged, envVars, inFlight, fetchCount>>

\* The clock advances.
Tick ==
  /\ now < MaxTime
  /\ now' = now + 1
  /\ UNCHANGED <<gwVars, cfgVars, cacheVars, muVars, pc, token, ctxDone, localVars,
                 result, logged, served, reachable, inFlight, fetchCount, hist>>

\* The identity provider rotates its keys.
Rotate(S) ==
  /\ <<served, S>> \in Rotations
  /\ served' = S
  /\ hist' = Unstable(Procs)
  /\ UNCHANGED <<gwVars, cfgVars, cacheVars, muVars, pc, token, ctxDone, localVars,
                 result, logged, now, reachable, inFlight, fetchCount>>

\* The key source becomes unreachable (or answers non-200 / malformed
\* JSON), or recovers.
Reach(b) ==
  /\ b # reachable
  /\ reachable' = b
  /\ hist' = Unstable(Procs)
  /\ UNCHANGED <<gwVars, cfgVars, cacheVars, muVars, pc, token, ctxDone, localVars,
                 result, logged, now, served, inFlight, fetchCount>>

Next ==
  \/ \E p \in Procs : \E s \in TokensOf(p) : Call(p, s)
  \/ \E p \in Procs : RLock(p)
  \/ \E p \in Procs : Check(p)
  \/ \E p \in Procs : Lock(p)
  \/ \E p \in Procs : FetchStart(p)
  \/ \E p \in Procs : FetchReturn(p)
  \/ \E p \in Procs : Store(p)
  \/ \E p \in Procs : Stamp(p)
  \/ \E p \in Procs : Parse(p)
  \/ \E p \in Procs : Cancel(p)
  \/ Tick
  \/ \E S \in SUBSET Kids : Rotate(S)
  \/ \E b \in BOOLEAN : Reach(b)

Spec == Init /\ [][Next]_vars

TypeOK ==
  /\ fetchCount \in 0..(2 * NumProcs)
  /\ writer \in Procs \cup {None}
  /\ readers \subseteq Procs
  /\ inFlight \subseteq Procs

\* Scheduling: a handler that can take its next step eventually does; a
\* fetch whose context is done returns.  Nothing makes the key source
\* answer, and nothing cancels a context.
FetchAbort(p) == ctxDone[p] /\ FetchReturn(p)
FairSpec ==
  /\ Spec
  /\ \A p \in Procs :
       /\ WF_vars(RLock(p)) /\ WF_vars(Check(p)) /\ WF_vars(Lock(p))
       /\ WF_vars(FetchStart(p)) /\ WF_vars(Parse(p)) /\ WF_vars(FetchAbort(p))
       /\ WF_vars(Store(p)) /\ WF_vars(Stamp(p))

\* ====================================================== the gateway process
\* Everything of the verifier but its cache: untouched by the gateway steps,
\* which run Verify to completion inside the middleware.
verifyVars == <<writer, readers, pc, token, ctxDone, ks, attempt, forced,
                result, logged, inFlight, fetchCount, hist>>

\* The process is started in some environment; runHTTP will construct the
\* verifier with the configured client ID.
GwInit ==
  /\ environ \in Environs
  /\ proc = [NoProc EXCEPT !.stage = "start"]
  /\ request = NoRequest /\ outbound = NoOutbound
  /\ response = NoResponse /\ metadata = NoMetadata
  /\ issuer = testIssuer
  /\ clientID = environ.PIDGR_AUTH_CLIENT_ID
  /\ keySet = NoSet /\ fetched = FALSE /\ lastFetched = NoTime
  /\ writer = None /\ readers = {}
  /\ pc = [p \in Procs |-> "idle"]
  /\ token = [p \in Procs |-> ""]
  /\ ctxDone = [p \in Procs |-> FALSE]
  /\ ks = [p \in Procs |-> NoSet]
  /\ attempt = [p \in Procs |-> 0]
  /\ forced = [p \in Procs |-> FALSE]
  /\ result = [p \in Procs |-> NoResult]
  /\ logged = [p \in Procs |-> NoLog]
  /\ now = 0
  /\ served = FirstServed
  /\ reachable \in BOOLEAN
  /\ inFlight = {} /\ fetchCount = 0
  /\ hist = [p \in Procs |-> NoHist]

\* The server takes one request at a time.
Ready == proc.stage = "serving" /\ request.stage \in {"idle", "done"}

\* run(): cfg, err := parseConfig(); if err != nil { return err }
Configure ==
  /\ proc.stage = "start"
  /\ LET r == parseConfig(environ) IN
       proc' = IF r.err # NoErr
               THEN [proc EXCEPT !.stage = "exited", !.err = r.err]
               ELSE [proc EXCEPT !.stage = "configured", !.cfg = r.cfg]
  /\ UNCHANGED <<cfgVars, cacheVars, envVars, verifyVars, environ, request,
                 outbound, response, metadata>>

\* run(): mcp.NewServer, then by transport the clients, tools.RegisterAll and
\* runStdio / runHTTP (which builds the metadata and starts listening).
Start ==
  /\ proc.stage = "configured"
  /\ proc' =
       CASE proc.cfg.Transport = "stdio" ->
              [proc EXCEPT !.stage = "serving", !.clients = "static",
                           !.made = {"server", "clients", "tools", "stdio"}]
         [] proc.cfg.Transport = "http" ->
              [proc EXCEPT !.stage = "serving", !.clients = "dynamic",
                           !.made = {"server", "clients", "tools", "http"}]
         [] OTHER ->
              [proc EXCEPT !.stage = "exited", !.made = {"server"},
                           !.err = LibErr(<<"invalid transport ", proc.cfg.Transport,
                                            ": must be 'stdio' or 'http'">>)]
  /\ metadata' = IF proc.cfg.Transport = "http"
                 THEN NewProtectedResourceMetadata(ResourceURL, issuer)
                 ELSE metadata
  /\ UNCHANGED <<cfgVars, cacheVars, envVars, verifyVars, environ, request,
                 outbound, response>>

\* mux.Handle(MetadataPath, ProtectedResourceMetadataHandler(metadata))
\* mux.Handle("/", authMiddleware(handler))
Protected(path) == path # MetadataPath

\* An HTTP request arrives: the mux routes it; the middleware verifies the
\* bearer token and answers 401 or passes the request to the MCP handler.
HttpRequest(path, fields) ==
  /\ Ready /\ proc.cfg.Transport = "http"
  /\ \E m \in {RequireBearerToken(fields)} :
     LET base == [NoRequest EXCEPT !.kind = "http", !.path = path, !.auth = fields]
     IN IF path = MetadataPath
        THEN /\ request' = [base EXCEPT !.stage = "done"]
             /\ response' = [NoResponse EXCEPT !.status = 200, !.doc = metadata]
             /\ UNCHANGED cacheVars
        ELSE IF ~Protected(path)
        THEN /\ request' = [base EXCEPT !.stage = "authorized"]
             /\ response' = NoResponse
             /\ UNCHANGED cacheVars
        ELSE /\ keySet' = m.v.cache.keySet
             /\ fetched' = m.v.cache.fetched
             /\ lastFetched' = m.v.cache.lastFetched
             /\ IF m.code # 0
                THEN /\ request' = [base EXCEPT !.stage = "done", !.verified = m.verified]
                     /\ response' =
                          [NoResponse EXCEPT
                             !.status = m.code, !.body = m.errmsg,
                             !.challenge = IF m.code = 401
                                           THEN "Bearer resource_metadata=" \o ResourceURL \o MetadataPath
                                           ELSE ""]
                ELSE /\ request' = [base EXCEPT !.stage = "authorized", !.ctx = m.ctx,
                                                !.verified = m.verified]
                     /\ response' = NoResponse
  /\ outbound' = NoOutbound
  /\ UNCHANGED <<cfgVars, envVars, verifyVars, environ, proc, metadata>>

\* The MCP server dispatches a tools/call to the tool's handler (in stdio
\* mode the request arrives on stdin; in HTTP mode it is the request the
\* middleware passed on).  The handler checks the batch size, builds the
\* proto request and calls the backend through the client's interceptor.
ToolCall(tool, in) ==
  /\ proc.stage = "serving"
  /\ \/ proc.cfg.Transport = "stdio" /\ request.stage = "idle"
     \/ proc.cfg.Transport = "http" /\ request.stage = "authorized"
  /\ LET base == IF proc.cfg.Transport = "stdio"
                 THEN [NoRequest EXCEPT !.kind = "stdio"] ELSE request
         e    == InputError(tool, in)
     IN IF e # NoToolErr
        THEN /\ request' = [base EXCEPT !.tool = tool, !.input = in, !.stage = "done"]
             /\ response' = [NoResponse EXCEPT !.handled = TRUE, !.call = ErrorResult(e),
                               !.status = IF base.kind = "http" THEN 200 ELSE 0]
             /\ outbound' = NoOutbound
        ELSE /\ request' = [base EXCEPT !.tool = tool, !.input = in, !.stage = "backend"]
             /\ response' = [NoResponse EXCEPT !.handled = TRUE]
             /\ outbound' =
                  <<[procedure |-> tool,
                     Authorization |-> Authorization(proc.clients, proc.cfg.apiKey, base.ctx),
                     msg |-> ProtoRequest(tool, in)]>>
  /\ UNCHANGED <<cfgVars, cacheVars, envVars, verifyVars, environ, proc, metadata>>

\* Variant that takes every call for a success.
CallOKAlways(a) == TRUE

\* The handler's test of the backend call's error: err == nil.
CallOK(a) == a = NoToolErr

\* The backend call returns; the handler turns the response or the error
\* into the tool result.
BackendReturn(a) ==
  /\ request.stage = "backend"
  /\ request' = [request EXCEPT !.answer = a, !.stage = "done"]
  /\ response' = [response EXCEPT
                    !.status = IF request.kind = "http" THEN 200 ELSE 0,
                    !.call = IF ~CallOK(a) THEN ErrorResult(a)
                             ELSE IF request.tool \in VoidTools
                             THEN [result |-> SuccessResult(VoidText(request.tool)),
                                   err |-> NoErr]
                             ELSE ProtoResult(request.tool)]
  /\ UNCHANGED <<cfgVars, cacheVars, envVars, verifyVars, environ, proc,
                 outbound, metadata>>

\* In stdio mode the server, having written the answer to stdout, waits
\* for the next message on stdin.
NextMessage ==
  /\ proc.stage = "serving" /\ proc.cfg.Transport = "stdio"
  /\ request.stage = "done"
  /\ request' = NoRequest
  /\ response' = NoResponse
  /\ outbound' = NoOutbound
  /\ UNCHANGED <<cfgVars, cacheVars, envVars, verifyVars, environ, proc, metadata>>

\* A client method is called with a context that did not pass the
\* middleware (as TestDynamicTokenInterceptor does).
DirectCall(ctx) ==
  /\ Ready
  /\ request' = [NoRequest EXCEPT !.kind = "direct", !.ctx = ctx, !.stage = "done"]
  /\ response' = NoResponse
  /\ outbound' = <<[procedure |-> "",
                    Authorization |-> Authorization(proc.clients, proc.cfg.apiKey, ctx),
                    msg |-> NoMsg]>>
  /\ UNCHANGED <<cfgVars, cacheVars, envVars, verifyVars, environ, proc, metadata>>

\* auth.NewProtectedResourceMetadata is called with the given arguments.
BuildMetadata(r, i) ==
  /\ Ready
  /\ request' = [NoRequest EXCEPT !.kind = "build", !.args = <<r, i>>, !.stage = "done"]
  /\ response' = [NoResponse EXCEPT !.doc = NewProtectedResourceMetadata(r, i)]
  /\ outbound' = NoOutbound
  /\ UNCHANGED <<cfgVars, cacheVars, envVars, verifyVars, environ, proc, metadata>>

GatewayNext ==
  \/ Configure
  \/ Start
  \/ \E path \in {McpPath, MetadataPath} : \E fields \in AuthHeaders :
       HttpRequest(path, fields)
  \/ \E tool \in Tools : \E in \in InputsOf(tool) : ToolCall(tool, in)
  \/ \E a \in Answers : BackendReturn(a)
  \/ NextMessage
  \/ \E ctx \in BareContexts : DirectCall(ctx)
  \/ \E r \in URLArgs : \E i \in URLArgs : BuildMetadata(r, i)

GatewaySpec == GwInit /\ [][GatewayNext]_vars

\* ================================================================= claims
Returned(p) == pc[p] = "done" /\ result[p].returned
Failed(p)   == Returned(p) /\ ~result[p].ok
Succeeded(p) == Returned(p) /\ result[p].ok

PublicError ==
  [text |-> <<"invalid token", ": token validation failed">>,
   wraps |-> {"ErrInvalidToken"}]

\* Text that must stay inside: the key-source URL, the token and its claim
\* values, and the text of the error that was logged.
Sensitive(p) ==
  LET tk == Decode(token[p]) IN
  ({issuer, "/.well-known/jwks.json", token[p], tk.iss, tk.sub, tk.org, tk.kid}
     \cup tk.aud
     \cup {logged[p].error.text[i] : i \in 1..Len(logged[p].error.text)})
  \ {""}

\* C1: every failing Verify returns the one public error 'token validation
\* failed' wrapping ErrInvalidToken, and its text contains neither the
\* key-source URL, nor a claim value of the token, nor the logged error text.
C1_GenericFailure ==
  \A p \in Procs :
    Failed(p) =>
      /\ result[p].err = PublicError
      /\ \A f \in Sensitive(p) : ~Contains(result[p].err, f)

C1_Witness ==
  /\ \E p \in Procs : Failed(p) /\ hist[p].fetchFailed
                      /\ Contains(logged[p].error, issuer)
  /\ \E p \in Procs : Failed(p) /\ Decode(token[p]).iss = EvilIssuer
                      /\ logged[p].msg = "token issuer mismatch"

\* The token is well formed, correctly signed, within its validity period,
\* from the configured issuer and for the configured audience.
ValidToken(s) ==
  LET tk == Decode(s) IN
  /\ tk.wf /\ tk.sig
  /\ (tk.exp = NoTime \/ now < tk.exp)
  /\ (tk.nbf = NoTime \/ now >= tk.nbf)
  /\ tk.iss = issuer
  /\ (clientID = "" \/ clientID \in tk.aud)

\* C2: a call that returned for a valid token, with the key source reachable
\* and serving the token's key throughout, returned success with UserID the
\* token's subject and Extra[raw_token] the input string.
C2_ValidTokenAccepted ==
  \A p \in Procs :
    (Returned(p) /\ ValidToken(token[p]) /\ hist[p].stable) =>
      /\ result[p].ok
      /\ result[p].info.UserID = Decode(token[p]).sub
      /\ result[p].info.Extra.raw_token = token[p]

C2_Witness ==
  \E p \in Procs : Succeeded(p) /\ hist[p].stable /\ token[p] = "tok-valid"
                   /\ result[p].info.UserID = "user-123"

\* The call found the cache fresh with a key set that lacks the token's key,
\* while the source served that key throughout.
RotatedKeyCall(p) ==
  /\ Returned(p) /\ ValidToken(token[p]) /\ hist[p].stable
  /\ hist[p].view = "fresh"
  /\ Decode(token[p]).kid \notin hist[p].ks0

OnlyCalls(P) == \A r \in Procs \ P : pc[r] = "idle"

\* C3: a rotated-key call succeeds after exactly one forced refresh (one
\* fetch); a successful call on the empty cache followed by a rotated-key
\* call makes two fetches in all.
C3_RotationOneRefresh ==
  /\ \A p \in Procs :
       RotatedKeyCall(p) =>
         result[p].ok /\ hist[p].refreshes = 1 /\ hist[p].fetches = 1
  /\ \A p, q \in Procs :
       (/\ p # q /\ OnlyCalls({p, q})
        /\ Succeeded(p) /\ hist[p].view = "empty" /\ hist[p].prior = {}
        /\ hist[p].refreshes = 0
        /\ RotatedKeyCall(q) /\ hist[q].prior = {p})
       => fetchCount = 2

C3_Witness ==
  \E p, q \in Procs :
    /\ p # q /\ OnlyCalls({p, q})
    /\ Succeeded(p) /\ hist[p].view = "empty" /\ hist[p].prior = {}
    /\ RotatedKeyCall(q) /\ hist[q].prior = {p}
    /\ Succeeded(q) /\ token[q] = "tok-k2" /\ keySet = {"K2"}

\* C4: a call makes a forced refresh only if its first parse failed for an
\* unknown key identifier.
C4_RefreshOnlyOnUnknownKid ==
  \A p \in Procs : hist[p].refreshes > 0 => hist[p].err1 = "unknown_kid"

\* C5: at most one fetch of the key set is in flight.
C5_OneFetchInFlight == Cardinality(inFlight) <= 1

C5_Witness ==
  \E p, q \in Procs : p # q /\ inFlight = {p} /\ pc[q] = "lock"

\* C6: calls that all began on the empty cache before any returned, each
\* with a valid token whose key the source serves, make one fetch in all.
C6_OneFetchForConcurrentCalls ==
  (\A p \in Procs :
      /\ Succeeded(p) /\ hist[p].stable /\ ValidToken(token[p])
      /\ hist[p].onEmpty /\ hist[p].prior = {})
  => fetchCount = 1

\* C7: while another call's fetch is outstanding, a caller arriving at a
\* fresh cache is granted the read lock.
C7_FreshReadNotBlocked ==
  \A p, q \in Procs :
    (pc[p] = "fetch" /\ pc[q] = "rlock" /\ CacheView = "fresh")
      => ENABLED RLock(q)

\* C8: a getKeySet call that finds the cache within its TTL returns the
\* cached key set and fetches nothing; a successful call on the empty cache
\* followed within the TTL by a call whose key is cached makes one fetch.
C8_FreshCacheNoFetch ==
  /\ \A p \in Procs :
       hist[p].view = "fresh" =>
         /\ hist[p].fetches <= hist[p].refreshes
         /\ (pc[p] = "parse" /\ attempt[p] = 1) => ks[p] = hist[p].ks0
  /\ \A p, q \in Procs :
       (/\ p # q /\ OnlyCalls({p, q})
        /\ Succeeded(p) /\ hist[p].view = "empty" /\ hist[p].prior = {}
        /\ hist[p].refreshes = 0
        /\ Succeeded(q) /\ hist[q].prior = {p} /\ hist[q].view = "fresh"
        /\ Decode(token[q]).kid \in hist[q].ks0)
       => fetchCount = 1

C8_Witness ==
  \E p, q \in Procs :
    /\ p # q /\ Succeeded(p) /\ hist[p].view = "empty"
    /\ Succeeded(q) /\ hist[q].prior = {p} /\ hist[q].view = "fresh"
    /\ hist[q].fetches = 0 /\ fetchCount = 1

\* C9: a fetch that fails leaves keySet, fetched and lastFetched as they
\* were and the call returns a failure, also when the cache was stale and
\* held the token's key.
C9_FailedFetchKeepsCache ==
  [][\A p \in Procs :
       (pc[p] = "fetch" /\ pc'[p] # "fetch" /\ (ctxDone[p] \/ ~reachable))
         => /\ keySet' = keySet /\ fetched' = fetched /\ lastFetched' = lastFetched
            /\ pc'[p] = "done" /\ result'[p].returned /\ ~result'[p].ok]_vars

C9_Witness ==
  \E p \in Procs :
    /\ Failed(p) /\ hist[p].fetchFailed /\ hist[p].view = "stale"
    /\ fetched /\ keySet = hist[p].ks0 /\ Decode(token[p]).kid \in keySet
    /\ ValidToken(token[p])

\* The call performs a fetch, or waits on v.mu while another call's fetch
\* is outstanding.
AtFetch(p) ==
  \/ pc[p] = "fetch"
  \/ pc[p] \in {"rlock", "lock", "drain"} /\ inFlight # {}

\* C10: a call whose context is done while it performs or awaits a key-set
\* fetch eventually returns (the claim adds: with a failure); none hangs.
C10_CancelledCallReturns ==
  \A p \in Procs : (ctxDone[p] /\ AtFetch(p)) ~> Returned(p)

\* ------------------------------------------------- claim checks of Verify
\* The failure class an operator reads from the log record of the call; the
\* returned error carries none.
Reason(p) ==
  LET m == logged[p].msg
      e == logged[p].error
  IN CASE m \in {"JWKS fetch failed", "JWKS refresh failed"} -> "key_source_unreachable"
       [] m = "token issuer mismatch" -> "issuer_mismatch"
       [] m = "token audience mismatch" -> "audience_mismatch"
       [] m = "token parse failed after JWKS refresh" ->
            IF Contains(e, "\"exp\" not satisfied") THEN "token_expired"
            ELSE IF Contains(e, "failed to parse token: invalid compact serialization: ")
              THEN "malformed_token"
            ELSE "signature_invalid"
       [] OTHER -> "none"

ExpiredAt(s, t) == Decode(s).exp # NoTime /\ t >= Decode(s).exp

Returns(p) == pc[p] # "done" /\ pc'[p] = "done"

\* C11 (as claimed): a call that returns for a token whose expiration is in
\* the past returns a rejection classified as expiry, whether or not the
\* signature is valid; stated for calls whose fetches all succeeded.
C11_ExpiredClassifiedExpiry ==
  [][\A p \in Procs :
       (Returns(p) /\ ExpiredAt(token[p], now) /\ ~hist'[p].fetchFailed)
         => (~result'[p].ok /\ Reason(p)' = "token_expired")]_vars

\* C11 (amended): a call that returns for a token whose expiration is in
\* the past returns the generic failure, whether or not the signature is
\* valid; the log record names expiry exactly when the call reached its
\* second parse with the token's key in the key set and the signature valid.
C11_ExpiredRejected ==
  [][\A p \in Procs :
       (Returns(p) /\ ExpiredAt(token[p], now))
         => /\ ~result'[p].ok
            /\ result'[p].err = PublicError
            /\ (Reason(p)' = "token_expired")
                 <=> (/\ pc[p] = "parse"
                      /\ Decode(token[p]).kid \in ks[p]
                      /\ Decode(token[p]).sig)]_vars

C11_Witness ==
  \E p \in Procs :
    /\ Failed(p) /\ token[p] = "tok-exp1" /\ hist[p].parses = 2
    /\ Reason(p) = "token_expired" /\ ExpiredAt(token[p], now)

\* C12: Verify returns success only for a token whose issuer claim equals
\* the configured issuer; a call for a token of another issuer returns a
\* failure, whatever the cache held.
C12_IssuerExact ==
  \A p \in Procs :
    /\ Succeeded(p) => Decode(token[p]).iss = issuer
    /\ (Returned(p) /\ Decode(token[p]).iss # issuer) => Failed(p)

C12_Witness ==
  \E p \in Procs :
    /\ Failed(p) /\ token[p] = "tok-evil" /\ Reason(p) = "issuer_mismatch"
    /\ hist[p].view = "fresh" /\ Decode(token[p]).kid \in hist[p].ks0
    /\ hist[p].refreshes = 0

\* C13: with a non-empty client ID, Verify returns success only if the
\* client ID is in the token's audience list; with an empty client ID no
\* call fails for its audience, and a token valid but for its audience is
\* accepted.
C13_AudienceCheck ==
  \A p \in Procs :
    /\ (clientID # "" /\ Succeeded(p)) => clientID \in Decode(token[p]).aud
    /\ (clientID = "" /\ Failed(p)) => Reason(p) # "audience_mismatch"
    /\ (clientID = "" /\ Returned(p) /\ hist[p].stable /\ ValidToken(token[p]))
         => result[p].ok

C13_Witness ==
  /\ clientID = TestClientID
  /\ \E p, q \in Procs :
       /\ Failed(p) /\ token[p] = "tok-otheraud" /\ Reason(p) = "audience_mismatch"
       /\ Succeeded(q) /\ token[q] = "tok-k2"

\* A handler holds the read lock and reads the three cache fields.
Observing == \E p \in Procs : pc[p] = "check"
\* A refresh has made some but not all of its three assignments.
MidInstall == \E p \in Procs : pc[p] \in {"store", "stamp"}
Installing(p) == pc[p] \in {"fetch", "store", "stamp"} /\ pc'[p] # pc[p]

\* C21: whenever a reader looks at the cache, fetched = false implies the
\* key set is absent and key set, flag and timestamp are those of one
\* completed fetch (no refresh is part-way through its assignments); the
\* cache fields change only in a step of refreshKeySet, which stamps the
\* key set it fetched itself; issuer and client ID never change.
C21_CacheCoherent ==
  /\ [](Observing =>
          /\ ~fetched => keySet = NoSet
          /\ ~MidInstall
          /\ fetched <=> keySet # NoSet
          /\ fetched <=> lastFetched # NoTime)
  /\ [][/\ (<<keySet, fetched, lastFetched>>' # <<keySet, fetched, lastFetched>>)
             => \E p \in Procs : Installing(p) /\ writer = p
        /\ \A p \in Procs :
             (pc[p] = "stamp" /\ pc'[p] # "stamp")
               => (keySet' = ks[p] /\ fetched' /\ lastFetched' = now)
        /\ issuer' = issuer /\ clientID' = clientID]_vars

C21_Witness ==
  \E p, q \in Procs :
    /\ pc[p] = "check" /\ pc[q] = "drain" /\ forced[q]
    /\ fetched /\ keySet = {"K1"} /\ lastFetched = 0 /\ now = 1

\* C22: one Verify call makes at most one forced refresh, at most two
\* parses and at most two fetches; when the forced refresh fails, or the
\* second parse fails for whatever reason, the call returns a failure.
C22_RetryOnce ==
  /\ [](\A p \in Procs :
          /\ hist[p].refreshes <= 1 /\ hist[p].parses <= 2 /\ hist[p].fetches <= 2
          /\ attempt[p] \in 0..2
          /\ (Returned(p) /\ hist[p].refreshes = 1 /\ hist[p].fetchFailed) => Failed(p))
  /\ [][\A p \in Procs :
          /\ (pc[p] = "parse" /\ attempt[p] = 2 /\ pc'[p] # "parse"
                /\ ParseKind(token[p], ks[p], now) # "ok")
               => (pc'[p] = "done" /\ result'[p].returned /\ ~result'[p].ok)
          /\ (pc[p] = "fetch" /\ forced[p] /\ pc'[p] # "fetch" /\ FetchError(p) # NoErr)
               => (pc'[p] = "done" /\ result'[p].returned /\ ~result'[p].ok)]_vars

C22_Witness ==
  \E p \in Procs :
    /\ Failed(p) /\ token[p] = "tok-k2"
    /\ hist[p].err1 = "unknown_kid"
    /\ hist[p].refreshes = 1 /\ hist[p].parses = 2 /\ hist[p].fetches = 2
    /\ Contains(logged[p].error, "failed to find key with key ID ")

Quiet == \A p \in Procs : ~Active(p)

\* C23: constructing the verifier fetches nothing; a fetch starts only in a
\* Verify call that found the cache empty or stale or makes its forced
\* refresh; while no Verify call is active the number of fetches and the
\* cache do not change.
C23_LazyRefresh ==
  /\ (fetchCount = 0 /\ inFlight = {} /\ ~fetched /\ keySet = NoSet)
  /\ [][/\ Quiet => /\ fetchCount' = fetchCount /\ inFlight' = inFlight
                    /\ keySet' = keySet /\ fetched' = fetched
                    /\ lastFetched' = lastFetched
        /\ fetchCount' # fetchCount =>
             \E p \in Procs :
               /\ Active(p) /\ pc[p] = "drain" /\ pc'[p] = "fetch"
               /\ fetchCount' = fetchCount + 1
               /\ forced[p] \/ hist[p].view \in {"empty", "stale"}]_vars

C23_Witness ==
  \E p, q \in Procs :
    /\ pc[p] = "fetch" /\ hist[p].view = "stale" /\ ~forced[p]
    /\ Succeeded(q) /\ hist[q].view = "empty" /\ fetchCount = 2

\* C24: getKeySet called when the cache is empty or at least one TTL (one
\* hour) old goes on to a blocking fetch; the successful fetch installs its
\* key set with lastFetched = now before getKeySet returns it, so the cache
\* is fresh right afterwards and the returned key set is the installed one.
C24_StaleFetch ==
  /\ jwksCacheTTL = 1
  /\ [][\A p \in Procs :
          /\ (pc[p] = "check" /\ pc'[p] # "check"
                /\ (~fetched \/ keySet = NoSet \/ now - lastFetched >= jwksCacheTTL))
               => pc'[p] = "lock"
          /\ (pc[p] = "stamp" /\ pc'[p] # "stamp" /\ ~forced[p])
               => /\ hist[p].view \in {"empty", "stale"} /\ hist[p].fetches = 1
                  /\ fetched' /\ lastFetched' = now /\ keySet' = ks'[p]
                  /\ keySet' # NoSet /\ now - lastFetched' < jwksCacheTTL
                  /\ pc'[p] = "parse" /\ attempt'[p] = 1]_vars

C24_Witness ==
  \E p \in Procs :
    /\ pc[p] = "parse" /\ attempt[p] = 1 /\ hist[p].view = "stale"
    /\ hist[p].fetches = 1 /\ hist[p].ks0 = {"K1"}
    /\ now = 1 /\ lastFetched = 1 /\ fetched /\ ks[p] = keySet /\ keySet = {"K2"}

\* C25: every successful Verify result carries a non-zero expiration: the
\* token's expiration claim when it has one, otherwise the time of the
\* verification plus one hour.
C25_ExpirationSet ==
  /\ ExpFallback = 1
  /\ [](\A p \in Procs : Succeeded(p) => result[p].info.Expiration # NoTime)
  /\ [][\A p \in Procs :
          (Returns(p) /\ result'[p].ok) =>
            /\ Decode(token[p]).exp # NoTime
                 => result'[p].info.Expiration = Decode(token[p]).exp
            /\ Decode(token[p]).exp = NoTime
                 => result'[p].info.Expiration = now + 1]_vars

C25_Witness ==
  \E p \in Procs :
    /\ Succeeded(p) /\ token[p] = "tok-otheraud"
    /\ Decode(token[p]).exp = NoTime
    /\ now = 1 /\ result[p].info.Expiration = 2

\* The key sets the key source ever publishes.
ServedSets == {FirstServed} \cup {r[2] : r \in Rotations}

\* C26: the key set a Verify call holds is not changed by a concurrent
\* refresh; a refresh replaces the cached key set by the fetched one, so
\* the cache and every parse hold exactly one published key set, never
\* keys of two fetches.
C26_SnapshotIsolation ==
  /\ [](/\ keySet \in ServedSets \cup {NoSet}
        /\ \A p \in Procs : pc[p] = "parse" => ks[p] \in ServedSets)
  /\ [][/\ \A p \in Procs : (pc[p] = "parse" /\ pc'[p] = "parse") => ks'[p] = ks[p]
        /\ keySet' # keySet => keySet' = served]_vars

C26_Witness ==
  \E p, q \in Procs :
    /\ pc[p] = "parse" /\ ks[p] = {"K1"}
    /\ pc[q] = "parse" /\ ks[q] = {"K2"} /\ keySet = {"K2"} /\ fetchCount = 2

\* ============================================ claim checks of the gateway
\* The outbound backend calls of the request in progress.
Calls == {outbound[i] : i \in DOMAIN outbound}

C15_HandlerBehindVerify ==
  request.kind = "http" =>
    /\ (response.handled \/ Calls # {} \/ request.stage \in {"authorized", "backend"}) =>
         (request.verified /\ request.path # MetadataPath)
    /\ (request.path # MetadataPath /\ ~request.verified) =>
         /\ response.status = 401 /\ response.challenge # ""
         /\ ~response.handled /\ Calls = {} /\ request.stage = "done"
    /\ request.path = MetadataPath =>
         /\ response.status = 200 /\ response.doc = metadata
         /\ ~response.handled /\ Calls = {}

C15_Witness ==
  /\ request.kind = "http" /\ request.path = McpPath
  /\ request.auth = <<"Bearer", "tok-badsig">>
  /\ response.status = 401 /\ ~response.handled

\* The error the tool handler of the finished request passed to ErrorResult.
HandledError ==
  IF InputError(request.tool, request.input) # NoToolErr
  THEN InputError(request.tool, request.input)
  ELSE request.answer

FixedTexts ==
  {"Not modified", "Request failed"} \cup {genericMessage[c] : c \in DOMAIN genericMessage}

\* C16: for every error, ErrorResult returns a nil Go error and a result with
\* IsError = true and a single text item from a fixed set: "Not modified" for
\* a not-modified error, the table entry for a Connect error with a known
\* code, "Request failed" for a Connect error with an unmapped code or a
\* non-Connect error; the text is never the backend error's message.
C16_ErrorResultGeneric ==
  (response.handled /\ request.stage = "done" /\ HandledError # NoToolErr) =>
    LET e == HandledError
        r == response.call
    IN /\ r.err = NoErr
       /\ r.result.IsError
       /\ Len(r.result.Content) = 1
       /\ r.result.Content[1] \in FixedTexts
       /\ r.result.Content[1] # e.msg
       /\ r.result.Content[1] =
            IF e.notModified THEN "Not modified"
            ELSE IF e.kind = "connect" /\ e.code \in DOMAIN genericMessage
                 THEN genericMessage[e.code]
            ELSE "Request failed"

C16_Witness ==
  /\ response.handled /\ request.stage = "done"
  /\ request.answer = ConnectError("permission_denied", BackendMsg)
  /\ response.call.result.Content = <<"Permission denied">>

\* The transport the environment selects ("" is an unset variable).
Selected ==
  IF environ.PIDGR_MCP_TRANSPORT = "" THEN "stdio" ELSE environ.PIDGR_MCP_TRANSPORT

Startable ==
  \/ Selected = "stdio" /\ environ.PIDGR_API_KEY # ""
  \/ Selected = "http" /\ environ.PIDGR_AUTH_POOL_ID # ""

\* C17: parseConfig succeeds iff the transport is "stdio" with a non-empty
\* PIDGR_API_KEY or "http" with a non-empty auth pool ID; an unset transport
\* is "stdio"; any other transport is an error; when parseConfig fails, run
\* returns the error having created no server, clients, tools or transport.
C17_StartupConfig ==
  proc.stage # "start" =>
    /\ (proc.stage \in {"configured", "serving"}) <=> Startable
    /\ proc.stage = "exited" <=> ~Startable
    /\ (proc.stage # "exited" /\ environ.PIDGR_MCP_TRANSPORT = "") =>
         proc.cfg.Transport = "stdio"
    /\ Selected \notin {"stdio", "http"} => proc.stage = "exited"
    /\ proc.stage = "exited" =>
         /\ proc.err # NoErr
         /\ proc.made = {} /\ proc.clients = "none"
         /\ request = NoRequest /\ outbound = NoOutbound /\ metadata = NoMetadata

C17_Witness ==
  /\ environ.PIDGR_MCP_TRANSPORT = "" /\ environ.PIDGR_API_KEY = ""
  /\ proc.stage = "exited" /\ proc.made = {}

\* The maximum the tool's input schema states for user_ids
\* (jsonschema "max 100000" of create_campaign, "max 100" of the others).
SchemaMax(tool) == IF tool = "create_campaign" THEN 100000 ELSE 100

\* C18: each batch tool rejects, before any backend call, exactly the
\* requests whose user_ids list exceeds the maximum stated in the tool's
\* input schema, and forwards every request within that maximum.
C18_BatchLimitAsStated ==
  (request.tool \in BatchTools /\ response.handled) =>
    /\ request.input.user_ids > SchemaMax(request.tool) =>
         /\ Calls = {} /\ request.stage = "done"
         /\ response.call.result.IsError
    /\ request.input.user_ids <= SchemaMax(request.tool) =>
         /\ Calls # {}
         /\ \A o \in Calls : o.msg.UserIds = request.input.user_ids

\* s names a value of the table: as its full name or without the prefix.
Recognised(tbl, prefix, s) == \E f \in DOMAIN tbl : s = f \/ prefix \o s = f
ValueOf(tbl, prefix, s) == tbl[CHOOSE f \in DOMAIN tbl : s = f \/ prefix \o s = f]

\* v is the value a scalar input s stands for.
ScalarMaps(tbl, prefix, s, v) ==
  /\ \A f \in DOMAIN tbl : (s = f \/ prefix \o s = f) => v = tbl[f]
  /\ ~Recognised(tbl, prefix, s) => v = 0

\* vs holds the values of the recognised entries of list, in order.
ListMaps(tbl, prefix, list, vs) ==
  LET known == SelectSeq(list, LAMBDA s : Recognised(tbl, prefix, s))
  IN /\ Len(vs) = Len(known)
     /\ \A i \in 1..Len(known) : vs[i] = ValueOf(tbl, prefix, known[i])

\* C19: for every enum-valued tool input the full proto name and the short
\* name without the type prefix give the same enum value; a string that is
\* neither gives UNSPECIFIED for a scalar input and is left out of a list
\* input, and the request is forwarded without an error.
C19_EnumNames ==
  (request.tool \in EnumTools /\ response.handled) =>
    /\ Calls # {}
    /\ request.stage = "backend" => response.call = NoCall
    /\ \A o \in Calls :
         LET in == request.input
             t  == request.tool
         IN /\ t = "list_deliveries" =>
                 ScalarMaps(DeliveryStatus_value, "DELIVERY_STATUS_", in.e1, o.msg.E1)
            /\ t = "create_template" =>
                 /\ ScalarMaps(TemplateType_value, "TEMPLATE_TYPE_", in.e1, o.msg.E1)
                 /\ ScalarMaps(TemplateVariableSource_value, "TEMPLATE_VARIABLE_SOURCE_",
                               in.e2, o.msg.E2)
            /\ t = "create_organization" =>
                 /\ ScalarMaps(Industry_value, "INDUSTRY_", in.e1, o.msg.E1)
                 /\ ScalarMaps(CompanySize_value, "COMPANY_SIZE_", in.e2, o.msg.E2)
            /\ t = "query_heatmap_data" =>
                 /\ ScalarMaps(HeatmapMode_value, "HEATMAP_MODE_", in.e1, o.msg.E1)
                 /\ ListMaps(TouchEventType_value, "TOUCH_EVENT_TYPE_", in.es, o.msg.Es)
            /\ t = "create_role" =>
                 ListMaps(Permission_value, "PERMISSION_", in.es, o.msg.Es)

C19_Witness ==
  /\ request.tool = "create_role" /\ request.stage = "backend"
  /\ request.input.es = <<"PERMISSION_CAMPAIGNS_WRITE", "bogus", "GROUPS_WRITE">>
  /\ \E o \in Calls : Len(o.msg.Es) = 2 /\ o.msg.Es[1] # 0 /\ o.msg.Es[2] # 0

\* The non-empty absolute URLs among the arguments presented.
Absolute(u) == u \in {ResourceURL, testIssuer}

\* The document the builder is to return for its two arguments.
Document(r, i) ==
  /\ response.doc.Resource = r
  /\ response.doc.AuthorizationServers = <<i>>
  /\ response.doc.ScopesSupported = <<"openid", "profile">>
  /\ response.doc.BearerMethodsSupported = <<"header">>
  /\ response.doc.ResourceName = "Pidgr MCP Server"

\* C20 as stated: the metadata builder rejects an empty or non-absolute
\* resource URL or issuer URL, and for valid inputs returns the document
\* with resource, authorization server, scopes, bearer methods and name.
C20_RejectsInvalidURL ==
  request.kind = "build" =>
    IF Absolute(request.args[1]) /\ Absolute(request.args[2])
    THEN Document(request.args[1], request.args[2])
    ELSE response.doc = NoMetadata

\* C20 as amended: the metadata builder validates nothing and cannot fail;
\* for every pair of strings, empty or not absolute included, it returns
\* resource = resourceURL, authorizationServers = [issuerURL],
\* scopesSupported = [openid, profile], bearerMethodsSupported = [header]
\* and the fixed resource name.
C20_MetadataForAnyInput ==
  request.kind = "build" => Document(request.args[1], request.args[2])

C20_Witness ==
  /\ request.kind = "build" /\ request.args = <<"", "/relative/path">>
  /\ response.doc.Resource = "" /\ response.doc.ResourceName = "Pidgr MCP Server"

\* C27: clampPageSize returns 20 for a size of zero or less, 100 for a size
\* above 100 and the size itself otherwise; its result is within 1..100 and
\* clamping the result again leaves it unchanged.
C27_ClampPageSize ==
  \A o \in Calls :
    request.tool \in ClampedTools =>
      LET n == request.input.page_size
          r == o.msg.PageSize
      IN /\ n <= 0 => r = 20
         /\ n > 100 => r = 100
         /\ (n >= 1 /\ n <= 100) => r = n
         /\ r \in 1..100
         /\ clampPageSize(r) = r

C27_Witness ==
  /\ request.tool = "list_campaigns" /\ request.stage = "backend"
  /\ request.input.page_size = 0
  /\ \E o \in Calls : o.msg.PageSize = 20

\* The limit the tool's handler passes to validateBatchSize.
BatchMax(tool) == IF tool = "create_campaign" THEN maxBatchSize ELSE teamBatchSize

\* C28: validateBatchSize(ids, max) returns an error exactly when ids has
\* more than max entries; an empty list and a list of exactly max entries
\* are accepted.  Seen on the handlers that call it: the request is rejected
\* before the backend call exactly when user_ids exceeds the limit passed.
C28_ValidateBatchSize ==
  (request.tool \in {"create_campaign", "add_team_members", "remove_team_members"}
     /\ response.handled) =>
    LET n   == request.input.user_ids
        max == BatchMax(request.tool)
        rejected == Calls = {} /\ request.stage = "done" /\ request.answer = NoToolErr
                      /\ response.call.result.IsError
    IN /\ rejected <=> n > max
       /\ ~rejected <=> Calls # {}
       /\ n \in {0, max} => ~rejected

C28_Witness ==
  /\ request.tool = "add_team_members" /\ request.stage = "backend"
  /\ request.input.user_ids = teamBatchSize
  /\ \E o \in Calls : o.msg.UserIds = teamBatchSize

\* C29: every paginated list tool sends the backend a page size within
\* 1..100: the requested size when it is in range, 20 when it is zero or
\* negative, 100 when it is larger; the page token is forwarded unchanged.
C29_PageSizeClamped ==
  \A o \in Calls :
    request.tool \in {"list_campaigns", "list_deliveries", "list_templates",
                      "list_teams", "list_team_members", "list_groups",
                      "list_group_members", "list_users",
                      "list_session_recordings"} =>
      LET n == request.input.page_size
      IN /\ o.msg.PageSize \in 1..100
         /\ o.msg.PageSize = IF n <= 0 THEN 20 ELSE IF n > 100 THEN 100 ELSE n
         /\ o.msg.PageToken = request.input.page_token

\* C30: for every tool handler a failed backend call, or an input the
\* handler rejects, yields a tool result with IsError = true together with a
\* nil Go error; a handler makes at most one backend call per invocation and
\* returns a non-error result only after that call succeeded.
C30_FailureAsToolResult ==
  (response.handled /\ request.tool \in Tools) =>
    LET r == response.call
        returned == request.stage = "done"
    IN /\ Len(outbound) <= 1
       /\ (returned /\ (Calls = {} \/ request.answer # NoToolErr)) =>
            /\ r.result.IsError
            /\ r.err = NoErr
       /\ (returned /\ ~r.result.IsError) =>
            /\ Len(outbound) = 1
            /\ request.answer = NoToolErr
            /\ r.err = NoErr

C30_Witness ==
  /\ request.tool = "delete_team" /\ request.stage = "done"
  /\ request.answer # NoToolErr /\ Len(outbound) = 1
  /\ response.call.result.IsError /\ response.call.err = NoErr

====
